---- MODULE Spec2Model ----
(***************************************************************************)
(* Model of src/pre-apply/pre_apply.py: one invocation of main() after     *)
(* another against a CloudFormation stack, the access keys of one IAM user *)
(* and the GitHub Actions secrets API.  Every remote call is one step; the *)
(* answer of the remote side is a nondeterministic choice.                 *)
(***************************************************************************)
EXTENDS Integers, Sequences, FiniteSets, TLC

\* ---- bounds of the model -------------------------------------------------
MaxRuns == 2
\* the longest password asked of generate_pg_password
MaxLen == 5

\* ---- values ----------------------------------------------------------------
\* Python's None and "" for the values the model compares.
None == <<>>

\* A text is <<syntax, document, layout>>.  The layout of a JSON text is
\* "canon" when it is written exactly as json.dumps writes it (", " and ": "
\* separators, one line) and "compact" otherwise.
YamlA == <<"yaml", "A", "asis">>
YamlB == <<"yaml", "B", "asis">>
JsonCanonA == <<"json", "A", "canon">>
JsonCompactA == <<"json", "A", "compact">>

\* Contents the file ./aws/pre_apply.yaml can have when a run starts.
Templates == {YamlA, YamlB, JsonCanonA, JsonCompactA}
NoFile == <<"nofile", "-", "-">>

\* hashlib.md5(text.encode("utf-8")).hexdigest(): equal texts, equal digests;
\* different texts of the model, different digests.
md5_hash(text) == <<"md5", text>>

\* json.dumps(value): a dict is written in the canonical layout, a str is
\* written as a quoted JSON string literal.
json_dumps(value) ==
    IF value[1] = "dict"
    THEN <<"json", value[2], "canon">>
    ELSE <<"quoted", value[2], value[3]>>

\* cf.get_template(...)["TemplateBody"]: the stored body, which the client
\* library hands over as a dict when the body is JSON and as a str otherwise.
TemplateBody(body) ==
    IF body[1] = "json" THEN <<"dict", body[2], "-">> ELSE body

\* line 115
remote_hash(body) == md5_hash(json_dumps(TemplateBody(body)))

\* line 119 (mutant: the comparison is dropped and the update always happens)
no_changes_always_false(current_hash, template_hash) == FALSE

\* (mutant: a template that could not be fetched counts as unchanged)
no_changes_when_unknown(current_hash, template_hash) ==
    current_hash = None \/ current_hash = template_hash

no_changes(current_hash, template_hash) == current_hash = template_hash

\* lines 238-243
SECRET_NAMES_swapped ==
    <<"AWS_SECRET_ACCESS_KEY", "AWS_ACCESS_KEY_ID", "AWS_ACCOUNT_ID",
      "AWS_REGION", "PG_USER", "PG_PASSWORD">>

SECRET_NAMES ==
    <<"AWS_ACCESS_KEY_ID", "AWS_SECRET_ACCESS_KEY", "AWS_ACCOUNT_ID",
      "AWS_REGION", "PG_USER", "PG_PASSWORD">>

\* line 30
retries_public_key == 3
\* line 58
retries_push == 3

\* lines 31 and 61, for i in range(1, retries + 1): whether a turn follows
\* turn i (mutant: the loop has no last turn)
retry_again_forever(i, retries) == TRUE

retry_again(i, retries) == i < retries

\* line 74 (mutant: only 201 counts as success)
push_succeeded_201_only(status_code) == status_code = 201

push_succeeded(status_code) == status_code \in {201, 204}

\* line 156: the number of keys at which the old keys are deleted first
key_cap == 2

\* line 156 (mutant: off by one)
cap_reached_off_by_one(listed_keys) == Len(listed_keys) > key_cap

\* line 156 (mutant: the old keys are never deleted)
cap_reached_never(listed_keys) == FALSE

cap_reached(listed_keys) == Len(listed_keys) >= key_cap

\* line 18
AWS_REGION == <<"us-east-1">>

\* lines 50-54: a sealed box of the value for the recipient key.  Every call
\* makes its own ephemeral sender key, so two calls give two ciphertexts.
encrypt_secret(secret_value, public_key, ephemeral) ==
    <<"sealed", secret_value, public_key, ephemeral>>

\* line 63 (mutant: a key id written into the code instead of the fetched one)
payload_fixed_key_id(key_id_arg, encrypted_value) == <<<<"key_id", 1>>, encrypted_value>>

payload(key_id_arg, encrypted_value) == <<key_id_arg, encrypted_value>>

\* lines 39-41 (mutant: the body of a 200 answer is not looked at)
public_key_retrieved_status_only(response) == response[1] = 200

public_key_retrieved(response) ==
    response[1] = 200 /\ response[2] # None /\ response[3] # None

\* line 223 (mutant: the rotation is not behind its flag)
rotation_asked_always(a) == TRUE

rotation_asked(a) == a.generate_key

\* line 227
token_missing(token) == token = ""

\* lines 174-177 and 187, each class cut down to one or two characters
letters_upper == {"A", "B"}
letters_lower == {"a"}
digits == {"1"}
symbols == {"!"}
all_chars == letters_upper \cup letters_lower \cup digits \cup symbols

\* line 171 (mutant: off by one)
too_short_off_by_one(len) == len < 3

too_short(len) == len < 4

\* line 188: range(length - 4) of choices; an empty range gives no character
filler(len) == [1..(len - 4) -> all_chars]

\* line 191: every order of the same characters
shuffled(chars) ==
    LET n == Len(chars) IN
    {[i \in 1..n |-> chars[p[i]]] :
        p \in {q \in [1..n -> 1..n] : \A i, j \in 1..n : i # j => q[i] # q[j]}}

\* line 230 (mutant: the check is dropped)
keys_missing_never(id, secret) == FALSE

keys_missing(id, secret) == id = None \/ secret = None

\* lines 91-95 of stack_exists (mutant: every ClientError means "absent")
stack_exists_swallow(answer) == IF answer = "ok" THEN "True" ELSE "False"

stack_exists(answer) ==
    IF answer = "ok" THEN "True"
    ELSE IF answer = "does not exist" THEN "False"
    ELSE "raise"

\* line 134 (mutant: the message is not recognised and the error is raised)
no_updates_never(message) == FALSE

no_updates(message) == message = "No updates are to be performed"

\* lines 220, 223, 226 and 248: the order of the blocks of main
\* (mutant: the keys are rotated before the stack is reconciled)
main_lines_rotate_first ==
    <<"main_generate_key", "main_deploy", "main_update_secrets", "main_no_action">>

main_lines ==
    <<"main_deploy", "main_generate_key", "main_update_secrets", "main_no_action">>

\* The block of main that follows the given one.
following(line) ==
    main_lines[(CHOOSE i \in 1..(Len(main_lines) - 1) : main_lines[i] = line) + 1]

\* line 248 (mutant: the check is dropped)
no_action_never(a) == FALSE

no_action(a) == ~(a.deploy_pre_apply \/ a.generate_key \/ a.update_secrets)

\* Answers of the remote sides.
PutStatuses == {201, 204, 500}
Tokens == {"", "ghp"}
CallNames == {"describe_stacks", "get_template", "create_stack", "update_stack",
              "wait", "list_access_keys", "delete_access_key", "create_access_key",
              "get_caller_identity"}
StackCalls == {"describe_stacks", "get_template", "create_stack", "update_stack", "wait"}
KeyCalls == {"list_access_keys", "delete_access_key", "create_access_key"}
CICalls == {"get_public_key", "put_secret"}

NoStack == <<"absent", NoFile>>
NoArgs == [deploy_pre_apply |-> FALSE, generate_key |-> FALSE, update_secrets |-> FALSE]

VARIABLES
    stack,                  \* remote: <<status, template body>> of pre-apply-stack
    keys,                   \* remote: ids of the access keys of IAM_USERNAME
    nextKeyId,              \* remote: id the next created key gets
    deployed,               \* history: run of the last successful create/update, or 0
    runs,                   \* number of invocations started
    pc,                     \* where main() is
    exit,                   \* "none", "ok" (exit code 0) or "fatal" (non-zero)
    args,                   \* the three intent flags
    GH_TOKEN,               \* the global after lines 19 and 208-209
    script,                 \* content of PRE_APPLY_SCRIPT, or NoFile
    aws_access_key_id,      \* local of main
    aws_secret_access_key,  \* local of main
    template_hash,          \* local of deploy_cloudformation
    current_hash,           \* local of deploy_cloudformation
    exists,                 \* what stack_exists returned: "unknown", "True", "False"
    returned,               \* history: phases of this run that returned normally
    listed,                 \* local keys of generate_aws_keys
    todo,                   \* rest of the loop of line 158
    public_key_b64,         \* local of main
    key_id,                 \* local of main
    aws_account_id,         \* local of main
    pg_password,            \* local of main
    getLog,                 \* history: answers to the GETs of the public-key fetch, kept
                            \* until the call after the fetch is made
    attempt,                \* loop variable i of the current retry loop
    secret_ix,              \* which push_github_secret call of lines 238-243
    accepted,               \* history: secret names answered 201/204 in this run
    putLog,                 \* history: <<name, status, key id, ciphertext>> of the PUTs of
                            \* the secret pushed last
    calls,                  \* history: number of cloud calls issued in this run
    ci_called,              \* history: CI API calls issued in this run
    fault,                  \* history: first cloud call of this run answered with an error
    update_answer,          \* history: what update_stack was answered in this run
    length,                 \* parameter of generate_pg_password
    password,               \* local of generate_pg_password
    gen_pc,                 \* where the call of generate_pg_password is
    stdout,                 \* history: the values this run has put into printed text
    stderr                  \* history: the values this run has put into exit messages

program == <<stack, keys, nextKeyId, deployed, runs, pc, exit, args, GH_TOKEN, script,
          aws_access_key_id, aws_secret_access_key, template_hash, current_hash,
          exists, returned, listed, todo, attempt, secret_ix, accepted, putLog, calls, ci_called,
          fault, update_answer, public_key_b64, key_id, aws_account_id, pg_password, getLog,
          stdout, stderr>>

generator == <<length, password, gen_pc>>
vars == <<program, generator>>

remote == <<stack, keys, nextKeyId, deployed>>
invocation == <<runs, args, GH_TOKEN, script>>
creds == <<aws_access_key_id, aws_secret_access_key>>
reconcile == <<template_hash, current_hash, exists>>
rotation == <<listed, todo>>
publish == <<attempt, secret_ix, accepted, putLog>>
fetch == <<public_key_b64, key_id, getLog>>
output == <<stdout, stderr>>
values == <<aws_account_id, pg_password>>

NoCalls == [c \in CallNames |-> 0]
Call(c) == calls' = [calls EXCEPT ![c] = @ + 1] /\ UNCHANGED ci_called
CallCI(c) == ci_called' = ci_called \cup {c} /\ UNCHANGED calls
Count(S) == LET RECURSIVE Sum(_)
                Sum(T) == IF T = {} THEN 0
                          ELSE LET c == CHOOSE x \in T : TRUE
                               IN calls[c] + Sum(T \ {c})
            IN Sum(S)

\* sys.exit(message) and an uncaught exception
\* (mutant: the process ends with exit code 0)
Fatal_exit_zero == pc' = "exited" /\ exit' = "ok"

Fatal == pc' = "exited" /\ exit' = "fatal"

\* The cloud call `c` was answered with an error, or not.
Faulted(c) == fault' = (IF fault = "none" THEN c ELSE fault)
NoFault == UNCHANGED fault

Init ==
    /\ stack \in {NoStack} \cup {<<"CREATE_COMPLETE", b>> : b \in Templates}
    /\ keys \in SUBSET (1..key_cap)
    /\ nextKeyId = key_cap + 1
    /\ deployed = 0
    /\ runs = 0
    /\ pc = "idle"
    /\ exit = "none"
    /\ args = NoArgs
    /\ GH_TOKEN = ""
    /\ script = NoFile
    /\ aws_access_key_id = None
    /\ aws_secret_access_key = None
    /\ template_hash = None
    /\ current_hash = None
    /\ exists = "unknown"
    /\ returned = {}
    /\ listed = <<>>
    /\ todo = <<>>
    /\ attempt = 0
    /\ secret_ix = 0
    /\ accepted = {}
    /\ putLog = <<>>
    /\ calls = NoCalls
    /\ ci_called = {}
    /\ fault = "none"
    /\ update_answer = "none"
    /\ public_key_b64 = None
    /\ key_id = None
    /\ aws_account_id = None
    /\ pg_password = None
    /\ getLog = <<>>
    /\ stdout = {}
    /\ stderr = {}
    /\ length = 0
    /\ password = <<>>
    /\ gen_pc = "idle"

\* lines 252-253: main has returned or the interpreter has exited; nothing the
\* process held is left, only what it did to the stack and to the user's keys.
ProcessEnds ==
    /\ pc = "exited"
    /\ pc' = "idle"
    /\ exit' = "none"
    /\ args' = NoArgs
    /\ GH_TOKEN' = ""
    /\ script' = NoFile
    /\ aws_access_key_id' = None
    /\ aws_secret_access_key' = None
    /\ template_hash' = None
    /\ current_hash' = None
    /\ exists' = "unknown"
    /\ returned' = {}
    /\ listed' = <<>>
    /\ todo' = <<>>
    /\ attempt' = 0
    /\ secret_ix' = 0
    /\ accepted' = {}
    /\ putLog' = <<>>
    /\ calls' = NoCalls
    /\ ci_called' = {}
    /\ fault' = "none"
    /\ update_answer' = "none"
    /\ public_key_b64' = None
    /\ key_id' = None
    /\ aws_account_id' = None
    /\ pg_password' = None
    /\ getLog' = <<>>
    /\ stdout' = {}
    /\ stderr' = {}
    /\ UNCHANGED <<remote, runs, generator>>

\* lines 195-218: a new process; nothing of an earlier run is in memory.
StartRun ==
    /\ pc = "idle"
    /\ runs < MaxRuns
    /\ runs' = runs + 1
    /\ args' \in [deploy_pre_apply : BOOLEAN, generate_key : BOOLEAN, update_secrets : BOOLEAN]
    /\ GH_TOKEN' \in Tokens
    /\ script' \in Templates \cup {NoFile}
    /\ aws_access_key_id' = None
    /\ aws_secret_access_key' = None
    /\ template_hash' = None
    /\ current_hash' = None
    /\ exists' = "unknown"
    /\ returned' = {}
    /\ listed' = <<>>
    /\ todo' = <<>>
    /\ attempt' = 0
    /\ secret_ix' = 0
    /\ accepted' = {}
    /\ putLog' = <<>>
    /\ calls' = NoCalls
    /\ ci_called' = {}
    /\ fault' = "none"
    /\ update_answer' = "none"
    /\ public_key_b64' = None
    /\ key_id' = None
    /\ aws_account_id' = None
    /\ pg_password' = None
    /\ getLog' = <<>>
    /\ exit' = "none"
    /\ pc' = main_lines[1]
    /\ stdout' = {}
    /\ stderr' = {}
    /\ UNCHANGED <<remote, generator>>

\* The phase of main() that has just returned, and the line main goes on at.
Return(phase, next) == returned' = returned \cup {phase} /\ pc' = next /\ UNCHANGED exit

\* lines 220-221 and 98-109
MainDeploy ==
    /\ pc = "main_deploy"
    /\ IF ~args.deploy_pre_apply
       THEN pc' = following("main_deploy") /\ UNCHANGED <<exit, template_hash, returned>>
       ELSE IF script = NoFile
            THEN Fatal /\ UNCHANGED <<template_hash, returned>>
            ELSE /\ template_hash' = md5_hash(script)
                 /\ pc' = "describe_stacks"
                 /\ UNCHANGED <<exit, returned>>
    /\ UNCHANGED <<remote, invocation, creds, current_hash, exists, rotation, publish, calls,
                   ci_called, fault, update_answer,
                   fetch, values, generator, output>>

\* lines 111 and 87-95
DescribeStacks ==
    /\ pc = "describe_stacks"
    /\ Call("describe_stacks")
    /\ \E answer \in (IF stack = NoStack THEN {"does not exist"} ELSE {"ok"}) \cup {"error"} :
         LET r == stack_exists(answer) IN
         /\ IF answer = "error" THEN Faulted("describe_stacks") ELSE NoFault
         /\ IF r = "raise"
            THEN Fatal /\ UNCHANGED exists
            ELSE /\ exists' = r
                 /\ pc' = IF r = "True" THEN "get_template" ELSE "create_stack"
                 /\ UNCHANGED exit
    /\ UNCHANGED <<remote, invocation, creds, template_hash, current_hash, returned,
                   rotation, publish, update_answer,
                   fetch, values, generator, output>>

\* lines 113-123
GetTemplate ==
    /\ pc = "get_template"
    /\ Call("get_template")
    /\ current_hash' \in {None} \cup (IF stack = NoStack THEN {} ELSE {remote_hash(stack[2])})
    /\ IF no_changes(current_hash', template_hash)
       THEN Return("deploy", following("main_deploy"))
       ELSE pc' = "update_stack" /\ UNCHANGED <<exit, returned>>
    /\ UNCHANGED <<remote, invocation, creds, template_hash, exists, rotation, publish,
                   fault, update_answer,
                   fetch, values, generator, output>>

\* What the provider can answer to update_stack(TemplateBody = body): it takes
\* the update of a stack that is in a completed state when the body differs
\* from the stack's, and answers "No updates are to be performed" when the
\* body describes the same document; it can always answer with another error.
UpdateAnswers(body) ==
    {"error"}
    \cup (IF stack # NoStack /\ stack[1] # "ROLLBACK_COMPLETE" /\ body # stack[2]
          THEN {"ok"} ELSE {})
    \cup (IF stack # NoStack /\ stack[1] # "ROLLBACK_COMPLETE" /\ body[2] = stack[2][2]
          THEN {"No updates are to be performed"} ELSE {})

\* lines 124-129 and 133-137
UpdateStack ==
    /\ pc = "update_stack"
    /\ Call("update_stack")
    /\ \E answer \in UpdateAnswers(script) :
         /\ update_answer' = answer
         /\ IF answer = "error" THEN Faulted("update_stack") ELSE NoFault
         /\ IF answer = "ok"
            THEN /\ stack' = <<"UPDATE_IN_PROGRESS", stack[2]>>
                 /\ pc' = "wait_update"
                 /\ UNCHANGED <<exit, returned>>
            ELSE IF no_updates(answer)
            THEN /\ Return("deploy", following("main_deploy"))
                 /\ UNCHANGED stack
            ELSE Fatal /\ UNCHANGED <<stack, returned>>
    /\ UNCHANGED <<keys, nextKeyId, deployed, invocation, creds, reconcile,
                   rotation, publish, fetch, values, generator, output>>

\* lines 130-132: the waiter's error is no ClientError and is not caught.
WaitUpdate ==
    /\ pc = "wait_update"
    /\ Call("wait")
    /\ \/ /\ stack' = <<"UPDATE_COMPLETE", script>>
          /\ deployed' = runs
          /\ Return("deploy", following("main_deploy"))
          /\ NoFault
       \/ /\ stack' = <<"UPDATE_ROLLBACK_COMPLETE", stack[2]>>
          /\ Faulted("wait")
          /\ Fatal
          /\ UNCHANGED <<deployed, returned>>
    /\ UNCHANGED <<keys, nextKeyId, invocation, creds, reconcile, rotation, publish,
                   update_answer,
                   fetch, values, generator, output>>

\* lines 139-144
CreateStack ==
    /\ pc = "create_stack"
    /\ Call("create_stack")
    /\ \/ /\ stack = NoStack
          /\ stack' = <<"CREATE_IN_PROGRESS", script>>
          /\ pc' = "wait_create"
          /\ NoFault
          /\ UNCHANGED exit
       \/ Faulted("create_stack") /\ Fatal /\ UNCHANGED stack
    /\ UNCHANGED <<keys, nextKeyId, deployed, invocation, creds, reconcile, returned,
                   rotation, publish, update_answer,
                   fetch, values, generator, output>>

\* lines 145-147
WaitCreate ==
    /\ pc = "wait_create"
    /\ Call("wait")
    /\ \/ /\ stack' = <<"CREATE_COMPLETE", stack[2]>>
          /\ deployed' = runs
          /\ Return("deploy", following("main_deploy"))
          /\ NoFault
       \/ /\ stack' = <<"ROLLBACK_COMPLETE", stack[2]>>
          /\ Faulted("wait")
          /\ Fatal
          /\ UNCHANGED <<deployed, returned>>
    /\ UNCHANGED <<keys, nextKeyId, invocation, creds, reconcile, rotation, publish,
                   update_answer,
                   fetch, values, generator, output>>

\* All orders in which list_access_keys can return the keys.
Listings(S) ==
    {s \in [1..Cardinality(S) -> S] : \A i, j \in 1..Cardinality(S) : i # j => s[i] # s[j]}

\* line 223
MainGenerateKey ==
    /\ pc = "main_generate_key"
    /\ pc' = IF rotation_asked(args) THEN "list_access_keys"
             ELSE following("main_generate_key")
    /\ UNCHANGED <<remote, invocation, creds, exit, reconcile, returned, rotation,
                   publish, calls, ci_called, fault, update_answer,
                   fetch, values, generator, output>>

\* lines 155-158
ListAccessKeys ==
    /\ pc = "list_access_keys"
    /\ Call("list_access_keys")
    /\ \/ \E answer \in Listings(keys) :
            /\ listed' = answer
            /\ IF cap_reached(answer)
               THEN todo' = answer /\ pc' = "delete_access_key"
               ELSE todo' = <<>> /\ pc' = "create_access_key"
            /\ NoFault
            /\ UNCHANGED exit
       \/ Faulted("list_access_keys") /\ Fatal /\ UNCHANGED rotation
    /\ UNCHANGED <<remote, invocation, creds, reconcile, returned, publish, update_answer,
                   fetch, values, generator, output>>

\* lines 158-159, one turn of the loop
DeleteAccessKey ==
    /\ pc = "delete_access_key"
    /\ Call("delete_access_key")
    /\ \/ /\ keys' = keys \ {Head(todo)}
          /\ todo' = Tail(todo)
          /\ pc' = IF Tail(todo) = <<>> THEN "create_access_key" ELSE "delete_access_key"
          /\ NoFault
          /\ UNCHANGED exit
       \/ Faulted("delete_access_key") /\ Fatal /\ UNCHANGED <<keys, todo>>
    /\ UNCHANGED <<stack, nextKeyId, deployed, invocation, creds, reconcile, returned,
                   listed, publish, update_answer,
                   fetch, values, generator, output>>

\* lines 161-163 and 224
CreateAccessKey ==
    /\ pc = "create_access_key"
    /\ Call("create_access_key")
    /\ \/ /\ keys' = keys \cup {nextKeyId}
          /\ nextKeyId' = nextKeyId + 1
          /\ aws_access_key_id' = <<"AccessKeyId", nextKeyId>>
          /\ aws_secret_access_key' = <<"SecretAccessKey", nextKeyId>>
          /\ Return("generate_key", following("main_generate_key"))
          /\ NoFault
       \/ Faulted("create_access_key") /\ Fatal /\ UNCHANGED <<keys, nextKeyId, creds, returned>>
    /\ UNCHANGED <<stack, deployed, invocation, reconcile, rotation, publish, update_answer,
                   fetch, values, generator, output>>

\* lines 226-231
MainUpdateSecrets ==
    /\ pc = "main_update_secrets"
    /\ IF ~args.update_secrets
       THEN pc' = following("main_update_secrets") /\ UNCHANGED <<exit, attempt>>
       ELSE IF token_missing(GH_TOKEN) \/ keys_missing(aws_access_key_id, aws_secret_access_key)
            THEN Fatal /\ UNCHANGED attempt
            ELSE pc' = "get_public_key" /\ attempt' = 1 /\ UNCHANGED exit
    /\ UNCHANGED <<remote, invocation, creds, reconcile, returned, rotation, secret_ix,
                   accepted, putLog, calls, ci_called, fault, update_answer,
                   fetch, values, generator, output>>

\* The keys the repository can have: <<key, key_id>>.
RepoKeys == {<<<<"key", n>>, <<"key_id", n>>>> : n \in 1..2}

\* What the public-key endpoint answers: <<status code, key, key_id>>.
PublicKeyAnswers ==
    {<<200, k[1], k[2]>> : k \in RepoKeys} \cup {<<200, None, None>>, <<500, None, None>>}

\* lines 31-47, one turn of the loop
GetPublicKey ==
    /\ pc = "get_public_key"
    /\ CallCI("get_public_key")
    /\ \E response \in PublicKeyAnswers :
         /\ getLog' = Append(getLog, response)
         /\ IF public_key_retrieved(response)
            THEN /\ public_key_b64' = response[2]
                 /\ key_id' = response[3]
                 /\ pc' = "get_caller_identity"
                 /\ UNCHANGED <<exit, attempt>>
            ELSE /\ UNCHANGED <<public_key_b64, key_id>>
                 /\ IF retry_again(attempt, retries_public_key)
                    THEN attempt' = attempt + 1 /\ UNCHANGED <<pc, exit>>
                    ELSE Fatal /\ UNCHANGED attempt
         /\ stderr' = IF ~public_key_retrieved(response)
                          /\ ~retry_again(attempt, retries_public_key)
                       THEN stderr \cup {<<"response.text", response[1]>>}
                       ELSE stderr
    /\ UNCHANGED stdout
    /\ UNCHANGED <<remote, invocation, creds, reconcile, returned, rotation, secret_ix,
                   accepted, putLog, fault, update_answer, values, generator>>

\* lines 234-236 and 166-168
GetCallerIdentity ==
    /\ pc = "get_caller_identity"
    /\ Call("get_caller_identity")
    /\ \/ /\ aws_account_id' = <<"Account", "123456789012">>
          /\ pg_password' = <<"pg_password", runs>>
          /\ pc' = "put_secret"
          /\ secret_ix' = 1
          /\ attempt' = 1
          /\ NoFault
          /\ UNCHANGED exit
       \/ Faulted("get_caller_identity") /\ Fatal /\ UNCHANGED <<secret_ix, attempt, values>>
    /\ getLog' = <<>>
    /\ UNCHANGED <<remote, invocation, creds, reconcile, returned, rotation, accepted, putLog,
                   update_answer, public_key_b64, key_id, generator, output>>

\* lines 75, 78 and 245: the values of main's that the prints about one PUT
\* carry, the secret's name, and after the last push the value main prints.
\* The attempt counter and the status code that line 78 prints are left out.
printed(name, status_code, ix, password_local) ==
    {<<"secret_name", name>>}
    \cup (IF push_succeeded(status_code) /\ ix = Len(SECRET_NAMES)
          THEN {password_local} ELSE {})

\* lines 238-243: the value pushed under each name
SECRET_VALUES ==
    <<aws_access_key_id, aws_secret_access_key, aws_account_id, AWS_REGION,
      <<"pg_user">>, pg_password>>

\* lines 61-81, one turn of the loop, and the next of lines 238-246
PutSecret ==
    /\ pc = "put_secret"
    /\ CallCI("put_secret")
    /\ \E status_code \in PutStatuses :
         LET name == SECRET_NAMES[secret_ix]
             encrypted_value == encrypt_secret(SECRET_VALUES[secret_ix], public_key_b64, attempt)
             sent == payload(key_id, encrypted_value)
         IN
         /\ putLog' = (IF attempt = 1 THEN <<>> ELSE putLog)
                         \o <<<<name, status_code, sent[1], sent[2]>>>>
         /\ accepted' = IF status_code \in {201, 204} THEN accepted \cup {name} ELSE accepted
         /\ stdout' = stdout \cup printed(name, status_code, secret_ix, pg_password)
         /\ stderr' = IF ~push_succeeded(status_code) /\ ~retry_again(attempt, retries_push)
                       THEN stderr \cup {<<"secret_name", name>>,
                                         <<"response.text", status_code>>}
                       ELSE stderr
         /\ IF push_succeeded(status_code)
            THEN IF secret_ix < Len(SECRET_NAMES)
                 THEN /\ secret_ix' = secret_ix + 1
                      /\ attempt' = 1
                      /\ UNCHANGED <<pc, exit, returned>>
                 ELSE /\ Return("update_secrets", following("main_update_secrets"))
                      /\ UNCHANGED <<secret_ix, attempt>>
            ELSE IF retry_again(attempt, retries_push)
                 THEN /\ attempt' = attempt + 1
                      /\ UNCHANGED <<pc, exit, returned, secret_ix>>
                 ELSE Fatal /\ UNCHANGED <<returned, secret_ix, attempt>>
    /\ UNCHANGED <<remote, invocation, creds, reconcile, rotation, fault, update_answer,
                   fetch, values, generator>>

\* lines 248-249 and the normal end of main
MainNoAction ==
    /\ pc = "main_no_action"
    /\ pc' = "exited"
    /\ exit' = IF no_action(args) THEN "fatal" ELSE "ok"
    /\ UNCHANGED <<remote, invocation, creds, reconcile, returned, rotation, publish, calls,
                   ci_called, fault, update_answer,
                   fetch, values, generator, output>>

Next ==
    \/ StartRun
    \/ ProcessEnds
    \/ MainDeploy
    \/ DescribeStacks
    \/ GetTemplate
    \/ UpdateStack
    \/ WaitUpdate
    \/ CreateStack
    \/ WaitCreate
    \/ MainGenerateKey
    \/ ListAccessKeys
    \/ DeleteAccessKey
    \/ CreateAccessKey
    \/ MainUpdateSecrets
    \/ GetPublicKey
    \/ GetCallerIdentity
    \/ PutSecret
    \/ MainNoAction

Spec == Init /\ [][Next]_vars

\* ---- one run against any stack and any keys ---------------------------------
\* The states a stack is left in between runs.
RestingStatuses ==
    {"CREATE_COMPLETE", "UPDATE_COMPLETE", "UPDATE_ROLLBACK_COMPLETE", "ROLLBACK_COMPLETE"}

InitAnyRemote ==
    /\ stack \in {NoStack} \cup {<<s, b>> : s \in RestingStatuses, b \in Templates}
    /\ keys \in SUBSET (1..key_cap)
    /\ nextKeyId = key_cap + 1
    /\ deployed = 0
    /\ runs = 0
    /\ pc = "idle"
    /\ exit = "none"
    /\ args = NoArgs
    /\ GH_TOKEN = ""
    /\ script = NoFile
    /\ aws_access_key_id = None
    /\ aws_secret_access_key = None
    /\ template_hash = None
    /\ current_hash = None
    /\ exists = "unknown"
    /\ returned = {}
    /\ listed = <<>>
    /\ todo = <<>>
    /\ attempt = 0
    /\ secret_ix = 0
    /\ accepted = {}
    /\ putLog = <<>>
    /\ calls = NoCalls
    /\ ci_called = {}
    /\ fault = "none"
    /\ update_answer = "none"
    /\ public_key_b64 = None
    /\ key_id = None
    /\ aws_account_id = None
    /\ pg_password = None
    /\ getLog = <<>>
    /\ stdout = {}
    /\ stderr = {}
    /\ length = 0
    /\ password = <<>>
    /\ gen_pc = "idle"

StartOnlyRun == runs = 0 /\ StartRun

\* The statements of one run of main.
RunStep ==
    \/ MainDeploy
    \/ DescribeStacks
    \/ GetTemplate
    \/ UpdateStack
    \/ WaitUpdate
    \/ CreateStack
    \/ WaitCreate
    \/ MainGenerateKey
    \/ ListAccessKeys
    \/ DeleteAccessKey
    \/ CreateAccessKey
    \/ MainUpdateSecrets
    \/ GetPublicKey
    \/ GetCallerIdentity
    \/ PutSecret
    \/ MainNoAction

NextOneRun ==
    \/ StartOnlyRun
    \/ RunStep

\* The process runs on: every call it makes returns and every waiter ends, so
\* the statement main is at is executed.
SpecOneRun == InitAnyRemote /\ [][NextOneRun]_vars /\ WF_vars(RunStep)

\* ---- generate_pg_password on its own ---------------------------------------
\* A call with any length up to MaxLen; main is not running.
InitPassword ==
    /\ length \in 0..MaxLen
    /\ password = <<>>
    /\ gen_pc = "called"
    /\ stack = NoStack
    /\ keys = {}
    /\ nextKeyId = key_cap + 1
    /\ deployed = 0
    /\ runs = 0
    /\ pc = "idle"
    /\ exit = "none"
    /\ args = NoArgs
    /\ GH_TOKEN = ""
    /\ script = NoFile
    /\ aws_access_key_id = None
    /\ aws_secret_access_key = None
    /\ template_hash = None
    /\ current_hash = None
    /\ exists = "unknown"
    /\ returned = {}
    /\ listed = <<>>
    /\ todo = <<>>
    /\ attempt = 0
    /\ secret_ix = 0
    /\ accepted = {}
    /\ putLog = <<>>
    /\ calls = NoCalls
    /\ ci_called = {}
    /\ fault = "none"
    /\ update_answer = "none"
    /\ public_key_b64 = None
    /\ key_id = None
    /\ aws_account_id = None
    /\ pg_password = None
    /\ getLog = <<>>
    /\ stdout = {}
    /\ stderr = {}

\* lines 171-172
CheckLength ==
    /\ gen_pc = "called"
    /\ gen_pc' = IF too_short(length) THEN "ValueError" ELSE "guaranteed"
    /\ UNCHANGED <<program, length, password>>

\* lines 180-185
PickGuaranteed ==
    /\ gen_pc = "guaranteed"
    /\ \E u \in letters_upper, l \in letters_lower, d \in digits, s \in symbols :
         password' = <<u, l, d, s>>
    /\ gen_pc' = "fill"
    /\ UNCHANGED <<program, length>>

\* lines 187-189
Fill ==
    /\ gen_pc = "fill"
    /\ \E more \in filler(length) : password' = password \o more
    /\ gen_pc' = "shuffle"
    /\ UNCHANGED <<program, length>>

\* lines 191-192
Shuffle ==
    /\ gen_pc = "shuffle"
    /\ password' \in shuffled(password)
    /\ gen_pc' = "returned"
    /\ UNCHANGED <<program, length>>

NextPassword ==
    \/ CheckLength
    \/ PickGuaranteed
    \/ Fill
    \/ Shuffle

SpecPassword == InitPassword /\ [][NextPassword]_vars

\* ---- properties ------------------------------------------------------------
Issued(c) == calls[c]
PublishPcs == {"get_public_key", "get_caller_identity", "put_secret"}
DeployPcs == {"main_deploy", "describe_stacks", "get_template", "update_stack",
              "wait_update", "create_stack", "wait_create"}
Accepting == {201, 204}
SecretOrder ==
    <<"AWS_ACCESS_KEY_ID", "AWS_SECRET_ACCESS_KEY", "AWS_ACCOUNT_ID",
      "AWS_REGION", "PG_USER", "PG_PASSWORD">>
Prefix(k) == {SecretOrder[j] : j \in 1..k}
Position(name) == CHOOSE k \in 0..Len(SecretOrder) :
                     IF \E j \in 1..Len(SecretOrder) : SecretOrder[j] = name
                     THEN k > 0 /\ SecretOrder[k] = name
                     ELSE k = 0

\* C1: a run with update-secrets and without generate-key issues no CI API call
\* (no public-key GET, no secret PUT) and, when it ends, ends in a fatal error,
\* whatever earlier runs did.
PublishWithoutRotateFails ==
    (args.update_secrets /\ ~args.generate_key) =>
        /\ ci_called = {}
        /\ pc \notin PublishPcs
        /\ (pc = "exited" => exit = "fatal")

\* C1 witness: the second run asks for update-secrets alone, with a token, after
\* an earlier run created a key; it has ended fatally.
PublishWithoutRotateSeen ==
    /\ runs = 2
    /\ nextKeyId > key_cap + 1
    /\ args.update_secrets /\ ~args.generate_key /\ ~args.deploy_pre_apply
    /\ GH_TOKEN # ""
    /\ pc = "exited" /\ exit = "fatal"

PreconditionViolated ==
    /\ runs > 0
    /\ \/ args.update_secrets /\ GH_TOKEN = ""
       \/ args.update_secrets /\ ~args.generate_key
       \/ ~(args.deploy_pre_apply \/ args.generate_key \/ args.update_secrets)

\* C2: in a run whose preconditions are violated (token missing or rotated
\* credentials missing while update-secrets is requested, or no intent given) no
\* network call at all is issued: no stack call, no access-key call, no CI call.
PreconditionsFailBeforeAnyCall ==
    PreconditionViolated => (Count(CallNames) = 0 /\ ci_called = {})

\* C3: the attempts made for one secret stop at the first 201/204 and are at
\* most 3; a 201/204 means the push succeeded and nothing more is sent for the
\* secret; three other answers end the run in fatal failure.
PushRetryLaw ==
    LET n == Len(putLog) IN
    /\ n <= 3
    /\ \A j \in 1..(n - 1) : putLog[j][2] \notin Accepting
    /\ \A j \in 1..n : putLog[j][1] = putLog[1][1]
    /\ n > 0 =>
         LET name == putLog[1][1] IN
         IF putLog[n][2] \in Accepting
         THEN /\ name \in accepted
              /\ ~(pc = "put_secret" /\ SECRET_NAMES[secret_ix] = name)
              /\ exit # "fatal"
         ELSE /\ name \notin accepted
              /\ IF n < 3
                 THEN pc = "put_secret" /\ SECRET_NAMES[secret_ix] = name /\ attempt = n + 1
                 ELSE pc = "exited" /\ exit = "fatal"

\* C3 witness: an endpoint that failed twice and then answered 201.
PushThirdAttemptSucceeded ==
    /\ Len(putLog) = 3
    /\ putLog[1][2] = 500 /\ putLog[2][2] = 500 /\ putLog[3][2] = 201
    /\ putLog[1][1] \in accepted

\* C4: the PUT about to be issued is for the next secret of the fixed order and
\* all earlier secrets, and only they, were accepted in this run; a secret that
\* used up its 3 attempts ends the run with no later secret sent.
PushOrderLaw ==
    /\ pc = "put_secret" =>
         LET k == Position(SECRET_NAMES[secret_ix]) IN
         /\ k > 0
         /\ accepted = Prefix(k - 1)
         /\ putLog # <<>> => Position(putLog[1][1]) \in {k - 1, k}
    /\ putLog = <<>> => accepted = {}
    /\ (Len(putLog) = 3 /\ putLog[3][2] \notin Accepting) =>
         /\ pc = "exited" /\ exit = "fatal"
         /\ accepted = Prefix(Position(putLog[1][1]) - 1)

\* C4 witness: the third secret used up its attempts after the first two went
\* through.
PushStoppedAtThirdSecret ==
    /\ Len(putLog) = 3
    /\ putLog[3][2] = 500
    /\ putLog[1][1] = "AWS_ACCOUNT_ID"
    /\ accepted = {"AWS_ACCESS_KEY_ID", "AWS_SECRET_ACCESS_KEY"}
    /\ pc = "exited"

\* C5 as stated: a run that has ended has had all six secrets accepted or none.
RolloutAllOrNothing ==
    pc = "exited" => (accepted = {} \/ accepted = Prefix(6))

\* C5 amended: the secrets accepted in a run are a prefix of the fixed order;
\* all six when the publish phase completed, fewer when the run ended fatally.
RolloutIsPrefix ==
    \E k \in 0..6 :
        /\ accepted = Prefix(k)
        /\ (pc = "exited" /\ exit = "ok" /\ args.update_secrets) => k = 6
        /\ exit = "fatal" => k < 6

\* C5 witness: a run that ended fatally with exactly two secrets updated.
RolloutPartial ==
    /\ pc = "exited" /\ exit = "fatal"
    /\ accepted = Prefix(2)

\* C6: after a rotation whose calls all succeeded: from 2 keys, both old keys
\* are deleted and the one key left is the new one handed to main; from 0 or 1
\* keys, nothing is deleted and the user has one key more; one create call.
KeyRotationLaw ==
    "generate_key" \in returned =>
        LET n == Len(listed)
            old == {listed[i] : i \in 1..n}
        IN
        /\ Issued("create_access_key") = 1
        /\ Issued("list_access_keys") = 1
        /\ aws_access_key_id # None /\ aws_secret_access_key # None
        /\ n = 2 => /\ keys = {aws_access_key_id[2]}
                    /\ Issued("delete_access_key") = 2
                    /\ old \cap keys = {}
        /\ n < 2 => /\ Cardinality(keys) = n + 1
                    /\ keys = old \cup {aws_access_key_id[2]}
                    /\ Issued("delete_access_key") = 0

\* C6 witness: a rotation that started from two keys has returned.
RotatedFromTwoKeys ==
    /\ "generate_key" \in returned
    /\ Len(listed) = 2
    /\ Cardinality(keys) = 1

\* C7: the user never holds more than 2 access keys, also when a list, delete
\* or create call fails part-way, and a create call is issued only while the
\* user holds fewer than 2 keys.
KeyCapInvariant ==
    /\ Cardinality(keys) <= 2
    /\ pc = "create_access_key" => Cardinality(keys) < 2

\* C7 witness: the second delete of a rotation failed; one old key is left.
RotationFailedPartWay ==
    /\ pc = "exited" /\ exit = "fatal"
    /\ Issued("delete_access_key") = 2
    /\ Issued("create_access_key") = 0
    /\ Cardinality(keys) = 1

\* C8: when the stack exists and the hash computed for the remote template
\* equals the local hash, no create and no update call is issued and the
\* reconcile phase returns normally; an update call is issued only when the
\* remote hash differs from the local one or could not be computed.
ReconcilerSkipLaw ==
    /\ (Issued("get_template") > 0 /\ current_hash = template_hash) =>
         /\ Issued("create_stack") = 0 /\ Issued("update_stack") = 0
         /\ pc \notin DeployPcs
         /\ "deploy" \in returned
    /\ (pc = "update_stack" \/ Issued("update_stack") > 0) =>
         /\ exists = "True"
         /\ current_hash # template_hash

\* C8 witness: a run that skipped the update and ended with exit code 0.
ReconcilerSkipped ==
    /\ Issued("get_template") = 1
    /\ current_hash = template_hash
    /\ pc = "exited" /\ exit = "ok"

\* C9: when the stack does not exist, one create call and no update call is
\* issued, and main goes on to the later phases only after the create has
\* completed; no run issues both a create and an update call.
ReconcilerCreateLaw ==
    /\ Issued("create_stack") <= 1
    /\ ~(Issued("create_stack") > 0 /\ Issued("update_stack") > 0)
    /\ stack = NoStack => pc \notin {"get_template", "update_stack", "wait_update"}
    /\ exists = "False" =>
         /\ Issued("update_stack") = 0 /\ Issued("get_template") = 0
         /\ \/ pc = "create_stack" /\ Issued("create_stack") = 0 /\ stack = NoStack
            \/ Issued("create_stack") = 1
         /\ ( \/ pc \notin DeployPcs \cup {"exited"}
              \/ "deploy" \in returned
              \/ Count(KeyCalls) > 0
              \/ ci_called # {}
              \/ exit = "ok" ) =>
                (stack[1] = "CREATE_COMPLETE" /\ Issued("wait") = 1)

\* C9 witness: the stack was created in this run and the rotation has started.
CreatedThenRotating ==
    /\ exists = "False"
    /\ Issued("create_stack") = 1
    /\ stack[1] = "CREATE_COMPLETE"
    /\ Issued("list_access_keys") = 1

\* C10: a run that reconciles with the file an earlier run successfully created
\* or updated the stack from, the stack not having changed since, issues no
\* create and no update call.
ReconcileIdempotent ==
    (args.deploy_pre_apply /\ deployed \in 1..(runs - 1) /\ script = stack[2]) =>
        (Issued("create_stack") = 0 /\ Issued("update_stack") = 0)
RotatePcs == {"main_generate_key", "list_access_keys", "delete_access_key",
              "create_access_key"}
NoUpdatesMessage == "No updates are to be performed"
AllPhases == {"deploy", "generate_key", "update_secrets"}

\* C11: an update call answered "No updates are to be performed" ends the
\* reconcile phase as a success with nothing waited for: the run is not aborted
\* by it, the rotate and publish phases that were asked for are still entered,
\* and the run ends with exit status 0 when they complete.
NoUpdatesIsSuccess ==
    update_answer = NoUpdatesMessage =>
        /\ "deploy" \in returned
        /\ fault # "update_stack"
        /\ Issued("wait") = 0
        /\ pc \notin DeployPcs
        /\ pc = "exited" =>
             /\ args.generate_key => Issued("list_access_keys") = 1
             /\ (args.update_secrets /\ "generate_key" \in returned /\ GH_TOKEN # "")
                    => "get_public_key" \in ci_called
             /\ exit = "ok" <=> /\ args.generate_key => "generate_key" \in returned
                                /\ args.update_secrets => "update_secrets" \in returned

\* C11 witness: the update was answered with the no-updates message and the run
\* went on through rotation and publication to exit status 0.
NoUpdatesThenAllDone ==
    /\ update_answer = NoUpdatesMessage
    /\ pc = "exited" /\ exit = "ok"
    /\ returned = AllPhases

\* C12: a fatal condition ends the run at once.  The failed cloud call is the
\* last call of the run: no call of a later phase and no further call of its own
\* phase is issued; three failed public-key fetches, three refused PUTs of one
\* secret and a failed precondition of the publish phase end the run the same
\* way, with no call after them.
FatalConditionEndsRun ==
    /\ fault # "none" =>
         /\ pc = "exited" /\ exit = "fatal"
         /\ Issued(fault) >= 1
         /\ fault \in StackCalls =>
              Count(KeyCalls) = 0 /\ Issued("get_caller_identity") = 0 /\ ci_called = {}
         /\ fault \in KeyCalls => Issued("get_caller_identity") = 0 /\ ci_called = {}
         /\ fault = "get_caller_identity" => "put_secret" \notin ci_called
         /\ fault = "describe_stacks" => Count(StackCalls) = 1
         /\ fault \in {"create_stack", "update_stack"} => Issued("wait") = 0
         /\ fault = "wait" => Issued("wait") = 1
         /\ fault = "list_access_keys" => Count(KeyCalls) = 1
         /\ fault = "delete_access_key" => Issued("create_access_key") = 0
         /\ fault = "create_access_key" => Issued("create_access_key") = 1
    /\ (Len(getLog) = 3 /\ (getLog[3][1] # 200 \/ getLog[3][2] = None)) =>
         /\ pc = "exited" /\ exit = "fatal"
         /\ "put_secret" \notin ci_called
         /\ Issued("get_caller_identity") = 0
    /\ (Len(putLog) = 3 /\ putLog[3][2] \notin Accepting) =>
         /\ pc = "exited" /\ exit = "fatal"
         /\ "update_secrets" \notin returned
    /\ (args.update_secrets /\ (GH_TOKEN = "" \/ ~args.generate_key)
          /\ pc \notin DeployPcs \cup RotatePcs \cup {"main_update_secrets"}) =>
         /\ pc = "exited" /\ exit = "fatal"
         /\ ci_called = {}
         /\ Issued("get_caller_identity") = 0

\* C12 witness: deleting an old key failed in a run that was also to publish;
\* the run has ended with no key created and nothing published.
DeleteFailureEndedRun ==
    /\ fault = "delete_access_key"
    /\ args.update_secrets /\ GH_TOKEN # ""
    /\ pc = "exited"

\* C13: the phases run in the order reconcile, rotate, publish.  While stack
\* calls can still be issued no access-key or CI call has been issued, while
\* access-key calls can still be issued no CI call has been issued, a phase
\* that has returned issues no further call, and a phase is entered only when
\* every earlier phase that was asked for has returned.
PhaseOrderLaw ==
    /\ pc \in DeployPcs =>
         /\ Count(KeyCalls) = 0 /\ Issued("get_caller_identity") = 0 /\ ci_called = {}
         /\ returned = {}
    /\ pc \in RotatePcs =>
         /\ Issued("get_caller_identity") = 0 /\ ci_called = {}
         /\ returned = (IF args.deploy_pre_apply THEN {"deploy"} ELSE {})
    /\ pc \in PublishPcs \cup {"main_update_secrets"} =>
         /\ args.deploy_pre_apply <=> "deploy" \in returned
         /\ args.generate_key <=> "generate_key" \in returned
         /\ "update_secrets" \notin returned
    /\ Count(StackCalls) > 0 => args.deploy_pre_apply
    /\ Count(KeyCalls) > 0 => args.generate_key
    /\ (ci_called # {} \/ Issued("get_caller_identity") > 0) => args.update_secrets
    /\ (Count(KeyCalls) > 0 /\ args.deploy_pre_apply) => "deploy" \in returned
    /\ (ci_called # {} /\ args.deploy_pre_apply) => "deploy" \in returned
    /\ ci_called # {} => "generate_key" \in returned

\* C13 witness: a run asked for all three phases is sending secrets after a
\* stack update or creation and a key creation.
PublishingAfterBothPhases ==
    /\ pc = "put_secret"
    /\ Issued("update_stack") + Issued("create_stack") = 1
    /\ Issued("create_access_key") = 1
    /\ "put_secret" \in ci_called
Retrieved(response) == response[1] = 200 /\ response[2] # None /\ response[3] # None

\* C14: the recipient key and its key id come from one successful fetch made
\* before every PUT: while a GET can still be issued no PUT has been issued,
\* the fetch ends at its first successful answer, whose key and key id main
\* holds from then on, and every PUT carries that key id and a value sealed for
\* that key.
OneFetchBeforeEveryPut ==
    /\ pc \in {"get_public_key", "get_caller_identity"} => "put_secret" \notin ci_called
    /\ "put_secret" \in ci_called => "get_public_key" \in ci_called
    /\ (pc \in {"get_caller_identity", "put_secret"} \/ "put_secret" \in ci_called) =>
         <<public_key_b64, key_id>> \in RepoKeys
    /\ pc = "get_caller_identity" =>
         LET n == Len(getLog) IN
         /\ n > 0
         /\ getLog[n] = <<200, public_key_b64, key_id>>
         /\ \A j \in 1..(n - 1) : ~Retrieved(getLog[j])
    /\ \A j \in 1..Len(putLog) :
         /\ putLog[j][3] = key_id
         /\ putLog[j][4][1] = "sealed"
         /\ putLog[j][4][3] = public_key_b64

\* C14 witness: the repository's second key was fetched and all six secrets
\* were accepted.
PublishedUnderSecondKey ==
    /\ key_id = <<"key_id", 2>>
    /\ accepted = Prefix(6)
    /\ Len(putLog) > 0 /\ putLog[1][1] = "PG_PASSWORD"

\* C15: the public key is asked for at most 3 times; the first answer with
\* status 200, a key and a key id ends the fetch successfully, any other answer
\* leads to the next attempt, and the third such answer ends the run in fatal
\* failure with no PUT and no account-identity query issued.
PublicKeyFetchLaw ==
    LET n == Len(getLog) IN
    /\ n <= 3
    /\ \A j \in 1..(n - 1) : ~Retrieved(getLog[j])
    /\ pc = "get_public_key" => attempt = n + 1
    /\ n > 0 =>
         IF Retrieved(getLog[n])
         THEN /\ pc = "get_caller_identity"
              /\ public_key_b64 = getLog[n][2] /\ key_id = getLog[n][3]
              /\ exit # "fatal"
         ELSE /\ public_key_b64 = None /\ key_id = None
              /\ "put_secret" \notin ci_called
              /\ Issued("get_caller_identity") = 0
              /\ IF n < 3
                 THEN pc = "get_public_key"
                 ELSE pc = "exited" /\ exit = "fatal"

\* C15 witness: a 500, then a 200 without a key, then a complete answer.
FetchedAtThirdAttempt ==
    /\ Len(getLog) = 3
    /\ getLog[1][1] = 500
    /\ getLog[2] = <<200, None, None>>
    /\ Retrieved(getLog[3])
    /\ pc = "get_caller_identity"

Requested ==
    (IF args.deploy_pre_apply THEN {"deploy"} ELSE {})
    \cup (IF args.generate_key THEN {"generate_key"} ELSE {})
    \cup (IF args.update_secrets THEN {"update_secrets"} ELSE {})

\* C16: a run that has ended has exit status 0 exactly when it was given at
\* least one intent and every phase it was asked for has completed; a missing
\* token or missing credentials with update-secrets, exhausted retries, a failed
\* cloud call and a run without intents all end with a non-zero status.
ExitCodeLaw ==
    /\ pc = "exited" =>
         /\ exit \in {"ok", "fatal"}
         /\ exit = "ok" <=> (Requested # {} /\ Requested \subseteq returned)
         /\ (args.update_secrets /\ GH_TOKEN = "") => exit = "fatal"
         /\ (args.update_secrets /\ ~args.generate_key) => exit = "fatal"
         /\ (Len(getLog) = 3 /\ ~Retrieved(getLog[3])) => exit = "fatal"
         /\ (Len(putLog) = 3 /\ putLog[3][2] \notin Accepting) => exit = "fatal"
         /\ fault # "none" => exit = "fatal"
         /\ Requested = {} => exit = "fatal"
    /\ pc # "exited" => exit = "none"
    /\ returned \subseteq Requested

\* C16 witness: a run asked to reconcile and to rotate did both and ended with
\* status 0.
TwoPhasesExitZero ==
    /\ pc = "exited" /\ exit = "ok"
    /\ Requested = {"deploy", "generate_key"}
    /\ Issued("create_access_key") = 1

\* C18: a failed list or delete call ends the rotation and the run: exactly one
\* list call, no call after the failed one, no create call, no credentials in
\* main, the key that could not be deleted and the keys after it still there,
\* no call of the publish phase.  A failed create call ends the run the same
\* way, and with no key at all when the old keys had been deleted.
RotationFailureLaw ==
    /\ fault \in KeyCalls =>
         /\ pc = "exited" /\ exit = "fatal"
         /\ Issued("list_access_keys") = 1
         /\ aws_access_key_id = None /\ aws_secret_access_key = None
         /\ "generate_key" \notin returned
         /\ ci_called = {} /\ Issued("get_caller_identity") = 0
    /\ fault = "list_access_keys" =>
         Issued("delete_access_key") = 0 /\ Issued("create_access_key") = 0
    /\ fault = "delete_access_key" =>
         LET k == Issued("delete_access_key") IN
         /\ Issued("create_access_key") = 0
         /\ k \in 1..Len(listed)
         /\ keys = {listed[i] : i \in k..Len(listed)}
    /\ fault = "create_access_key" =>
         /\ Issued("create_access_key") = 1
         /\ Issued("delete_access_key") > 0 => keys = {}
         /\ Issued("delete_access_key") = 0 => keys = {listed[i] : i \in 1..Len(listed)}

\* C18 witness: the second delete call failed in a run that was also to
\* publish: the first old key is gone, the second is the only key left.
SecondDeleteFailed ==
    /\ fault = "delete_access_key"
    /\ Issued("delete_access_key") = 2
    /\ Cardinality(keys) = 1
    /\ args.update_secrets /\ GH_TOKEN # ""
\* C17: the values sent under AWS_ACCESS_KEY_ID and AWS_SECRET_ACCESS_KEY are
\* the id and the secret of the key made by the one create call of this run,
\* which is the key made last, and when the publish phase has completed that
\* key is one of the user's keys.
PublishedPairIsThisRunsPair ==
    /\ "put_secret" \in ci_called =>
         /\ Issued("create_access_key") = 1
         /\ aws_access_key_id = <<"AccessKeyId", nextKeyId - 1>>
         /\ aws_secret_access_key = <<"SecretAccessKey", nextKeyId - 1>>
    /\ \A j \in 1..Len(putLog) :
         /\ putLog[j][1] = "AWS_ACCESS_KEY_ID" =>
              putLog[j][4][2] = <<"AccessKeyId", nextKeyId - 1>>
         /\ putLog[j][1] = "AWS_SECRET_ACCESS_KEY" =>
              putLog[j][4][2] = <<"SecretAccessKey", nextKeyId - 1>>
         /\ putLog[j][1] \notin {"AWS_ACCESS_KEY_ID", "AWS_SECRET_ACCESS_KEY"} =>
              putLog[j][4][2] \notin {aws_access_key_id, aws_secret_access_key}
    /\ "update_secrets" \in returned => aws_access_key_id[2] \in keys

\* C17 witness: the secret of the key created in the second run, after a first
\* run that created a key as well, was accepted under AWS_SECRET_ACCESS_KEY.
SecondRunPublishedItsOwnKey ==
    /\ runs = 2
    /\ nextKeyId = key_cap + 3
    /\ Len(putLog) = 1
    /\ putLog[1][1] = "AWS_SECRET_ACCESS_KEY"
    /\ putLog[1][2] \in Accepting
    /\ putLog[1][4][2] = <<"SecretAccessKey", key_cap + 2>>

\* C20 as stated: the values sent in the PUTs of one secret come from one
\* encryption call, and each is the sealed value of the secret it is sent for.
OneEncryptionPerSecret ==
    /\ Cardinality({putLog[j][4] : j \in 1..Len(putLog)}) <= 1
    /\ \A j \in 1..Len(putLog) :
         putLog[j][4][2] = SECRET_VALUES[Position(putLog[j][1])]
HasOneOf(chars, class) == \E i \in 1..Len(chars) : chars[i] \in class
AllClasses(chars) ==
    /\ HasOneOf(chars, {"A", "B"})
    /\ HasOneOf(chars, {"a"})
    /\ HasOneOf(chars, {"1"})
    /\ HasOneOf(chars, {"!"})

\* C19: a call with a length of at least 4 returns a password of exactly that
\* length with an uppercase letter, a lowercase letter, a digit and a symbol in
\* it, before and after the shuffle; a call with a length below 4 ends in the
\* validation error and no password is made.
PasswordLaw ==
    /\ gen_pc = "returned" =>
         /\ length >= 4
         /\ Len(password) = length
         /\ AllClasses(password)
         /\ \A i \in 1..Len(password) : password[i] \in {"A", "B", "a", "1", "!"}
    /\ gen_pc = "shuffle" => (Len(password) = length /\ AllClasses(password))
    /\ gen_pc = "ValueError" => length < 4
    /\ length < 4 => (gen_pc \in {"called", "ValueError"} /\ password = <<>>)
    /\ length >= 4 => gen_pc # "ValueError"

\* C19 witness: a password of the greatest length whose shuffle moved the
\* symbol to the front and the uppercase letter to the end.
PasswordShuffled ==
    /\ gen_pc = "returned"
    /\ length = 5
    /\ password[1] = "!"
    /\ password[5] \in {"A", "B"}
    /\ password[3] = "1"
\* C21: every run ends, in success or in fatal failure, whatever the remote
\* side answers, and on the way the public key is asked for at most 3 times
\* and each of the six secrets is sent at most 3 times, one secret after the
\* other (18 PUTs at most).
RunTerminates ==
    /\ [](/\ Len(getLog) <= 3
          /\ Len(putLog) <= 3
          /\ pc = "get_public_key" => attempt \in 1..3
          /\ pc = "put_secret" =>
               /\ attempt \in 1..3
               /\ secret_ix \in 1..6
               /\ Cardinality(accepted) = secret_ix - 1)
    /\ (pc \notin {"idle", "exited"}) ~> (pc = "exited")

\* C21 witness: a run that ended in success after the last secret was refused
\* twice.
EndedAfterRetries ==
    /\ pc = "exited" /\ exit = "ok"
    /\ returned = AllPhases
    /\ Len(putLog) = 3
    /\ putLog[1][1] = "PG_PASSWORD"
\* C22 as stated: the secret of the key made in this run and the password made
\* in this run are in no printed text and in no exit message, and what a PUT
\* carries of a secret is its sealed value.
NoPlaintextLeaves ==
    /\ \A v \in stdout \cup stderr :
         v \notin {aws_secret_access_key, pg_password} \ {None}
    /\ \A j \in 1..Len(putLog) : putLog[j][4][1] = "sealed"
\* C23: when the stack exists and its template could not be fetched or hashed,
\* the run goes on: the next call is an update call, the only one of the run,
\* no create call is issued, and a completed update leaves the stack with the
\* local file's body.  When the existence query fails with another error than
\* "does not exist", the run ends fatally with no template fetch, no create and
\* no update call.
TemplateFetchFailureLaw ==
    /\ (exists = "True" /\ Issued("get_template") = 1 /\ current_hash = None) =>
         /\ fault # "get_template"
         /\ Issued("create_stack") = 0
         /\ IF pc = "update_stack"
            THEN Issued("update_stack") = 0 /\ exit = "none"
            ELSE Issued("update_stack") = 1
         /\ (update_answer = "ok" /\ "deploy" \in returned) =>
              stack = <<"UPDATE_COMPLETE", script>>
    /\ fault = "describe_stacks" =>
         /\ pc = "exited" /\ exit = "fatal"
         /\ exists = "unknown"
         /\ Issued("get_template") = 0
         /\ Issued("create_stack") = 0
         /\ Issued("update_stack") = 0

\* C23 witness: the template of an existing stack could not be fetched and the
\* update that followed went through with the local body.
UpdatedAfterFetchFailure ==
    /\ exists = "True"
    /\ Issued("get_template") = 1 /\ current_hash = None
    /\ Issued("update_stack") = 1 /\ update_answer = "ok"
    /\ stack = <<"UPDATE_COMPLETE", script>>
    /\ "deploy" \in returned
\* What a step of a run leaves alone, by what the run was asked to do.
PhaseFrame ==
    (runs' = runs /\ pc # "exited") =>
        /\ Requested = {"deploy"} =>
             /\ keys' = keys /\ nextKeyId' = nextKeyId
             /\ \A c \in KeyCalls : calls'[c] = 0
             /\ ci_called' = {} /\ accepted' = {}
        /\ Requested = {"generate_key"} =>
             /\ stack' = stack /\ deployed' = deployed
             /\ \A c \in StackCalls : calls'[c] = 0
             /\ ci_called' = {} /\ accepted' = {}
        /\ pc \in PublishPcs \cup {"main_update_secrets"} =>
             /\ stack' = stack /\ deployed' = deployed
             /\ keys' = keys /\ nextKeyId' = nextKeyId
             /\ \A c \in StackCalls \cup KeyCalls : calls'[c] = calls[c]
        /\ Requested = {} =>
             /\ remote' = remote
             /\ calls' = NoCalls
             /\ ci_called' = {} /\ accepted' = {}

\* C24: each phase changes only its own resource.  No step of a run asked only
\* to reconcile changes the user's keys or sends anything to the CI API, no
\* step of a run asked only to rotate changes the stack or sends anything to
\* the CI API, no step of the publish phase changes the stack or the keys or
\* issues a stack or access-key call, and no step of a run without intent
\* changes or calls anything.
PhaseFrameLaw == [][PhaseFrame]_vars

\* C24 witness: a run asked only to reconcile has updated the stack and ended
\* in success while the user holds two keys.
ReconciledOnly ==
    /\ pc = "exited" /\ exit = "ok"
    /\ Requested = {"deploy"}
    /\ stack = <<"UPDATE_COMPLETE", script>>
    /\ deployed = runs
    /\ Cardinality(keys) = 2
====
